---- MODULE Spec2Model ----
(***************************************************************************)
(* A model of dependency-check.ts: the internal-module classifier          *)
(* (isInternalModule), the policy checker (checkDependencies) and the      *)
(* command-line entry point (main).                                        *)
(*                                                                         *)
(* Strings are TLA+ strings in the state; wherever the program looks       *)
(* inside a string (startsWith, includes, toLowerCase, split, trim, the    *)
(* integer-key test of property enumeration) the model works on the        *)
(* string's characters, given by the table Chars.                          *)
(***************************************************************************)
EXTENDS Integers, Sequences, FiniteSets, TLC

VARIABLES env, cwd, file, pkg, pc, options, packageJsonPath, result,
          internal, stdout, stderr, exitCode

vars == <<env, cwd, file, pkg, pc, options, packageJsonPath, result,
          internal, stdout, stderr, exitCode>>

(***************************************************************************)
(* Values                                                                  *)
(***************************************************************************)

\* JavaScript's undefined, for a string: an unset environment variable,
\* a working directory that is gone.
Undefined == "<undefined>"

\* A variable main or a caller has not assigned yet.
Unassigned == [unassigned |-> TRUE]

\* The characters of every string the model uses.
Chars ==
  ( "" :> <<>> ) @@
  ( "@tscircuit/core" :>
      <<"@","t","s","c","i","r","c","u","i","t","/","c","o","r","e">> ) @@
  ( "@tscircuit/" :> <<"@","t","s","c","i","r","c","u","i","t","/">> ) @@
  ( "circuit" :> <<"c","i","r","c","u","i","t">> ) @@
  ( "MyCircuitLib" :> <<"M","y","C","i","r","c","u","i","t","L","i","b">> ) @@
  ( "schematic-symbols" :>
      <<"s","c","h","e","m","a","t","i","c","-","s","y","m","b","o","l","s">> ) @@
  ( "react" :> <<"r","e","a","c","t">> ) @@
  ( "my-internal-lib" :>
      <<"m","y","-","i","n","t","e","r","n","a","l","-","l","i","b">> ) @@
  ( "10" :> <<"1","0">> ) @@
  ( "2" :> <<"2">> ) @@
  ( "10,2" :> <<"1","0",",","2">> ) @@
  ( " my-internal-lib , 2" :>
      <<" ","m","y","-","i","n","t","e","r","n","a","l","-","l","i","b",
        " ",","," ","2">> ) @@
  ( "react, @tscircuit/core" :>
      <<"r","e","a","c","t",","," ",
        "@","t","s","c","i","r","c","u","i","t","/","c","o","r","e">> )

\* The string with the given characters.
Str(cs) == CHOOSE s \in DOMAIN Chars : Chars[s] = cs

Upper == <<"A","B","C","D","E","F","G","H","I","J","K","L","M",
           "N","O","P","Q","R","S","T","U","V","W","X","Y","Z">>
Lower == <<"a","b","c","d","e","f","g","h","i","j","k","l","m",
           "n","o","p","q","r","s","t","u","v","w","x","y","z">>
Digits == <<"0","1","2","3","4","5","6","7","8","9">>

\* String.prototype.toLowerCase, character by character.
toLowerCase(cs) ==
  [i \in 1..Len(cs) |->
     IF \E k \in 1..Len(Upper) : Upper[k] = cs[i]
     THEN Lower[CHOOSE k \in 1..Len(Upper) : Upper[k] = cs[i]]
     ELSE cs[i]]

\* String.prototype.startsWith
startsWith(cs, prefix) ==
  /\ Len(cs) >= Len(prefix)
  /\ SubSeq(cs, 1, Len(prefix)) = prefix

\* String.prototype.includes
includes(cs, sub) ==
  \E i \in 0..(Len(cs) - Len(sub)) : SubSeq(cs, i + 1, i + Len(sub)) = sub

\* Array.prototype.includes on an array of strings.
arrayIncludes(arr, s) == \E i \in 1..Len(arr) : arr[i] = s

(***************************************************************************)
(* isInternalModule                                                        *)
(***************************************************************************)

INTERNAL_PACKAGE_LIST == <<"schematic-symbols">>

defaultOptions ==
  [package_type |-> "internal_lib",
   peer_deps_should_be_asterisk |-> TRUE,
   additional_internal_modules |-> <<>>,
   ignore_packages |-> <<>>]

\* Variant: the "circuit" test without toLowerCase.
isInternalModule_CaseSensitive(packageName, additionalModules) ==
  \/ arrayIncludes(INTERNAL_PACKAGE_LIST, packageName)
  \/ startsWith(Chars[packageName], Chars["@tscircuit/"])
  \/ includes(Chars[packageName], Chars["circuit"])
  \/ arrayIncludes(additionalModules, packageName)

isInternalModule(packageName, additionalModules) ==
      IF arrayIncludes(INTERNAL_PACKAGE_LIST, packageName) THEN TRUE
      ELSE IF startsWith(Chars[packageName], Chars["@tscircuit/"]) THEN TRUE
      ELSE IF includes(toLowerCase(Chars[packageName]), Chars["circuit"]) THEN TRUE
      ELSE IF arrayIncludes(additionalModules, packageName) THEN TRUE
      ELSE FALSE

(***************************************************************************)
(* The manifest file and its parse                                         *)
(*                                                                         *)
(* file.kind is what lies at packageJsonPath: "absent" (no such file),     *)
(* "malformed" (text that is not JSON), "null" (the JSON text null) or     *)
(* "object" (a JSON object).  For an object, file.declared is the set of   *)
(* sections the text declares, and each declared section is the sequence   *)
(* of its <<name, version>> members in the order the text declares them;   *)
(* a name may be declared twice.                                           *)
(* Sections are JSON objects from names to version strings, as in a        *)
(* package.json.                                                           *)
(***************************************************************************)

\* The value of a decimal digit character.
digitValue(c) == (CHOOSE k \in 1..Len(Digits) : Digits[k] = c) - 1

\* The order of two canonical decimal strings (no leading zero) as
\* numbers: the shorter is smaller, equal lengths compare digit by digit.
decimalLessEq(a, b) ==
  \/ Len(a) < Len(b)
  \/ /\ Len(a) = Len(b)
     /\ \/ a = b
        \/ \E i \in 1..Len(a) :
             /\ SubSeq(a, 1, i - 1) = SubSeq(b, 1, i - 1)
             /\ digitValue(a[i]) < digitValue(b[i])

\* The largest array index of ECMAScript, 2^32 - 2 = 4294967294.
MaxArrayIndex == <<"4","2","9","4","9","6","7","2","9","4">>

\* A property key is an integer index when it is the canonical decimal
\* string of an integer in 0..2^32-2.
isArrayIndex(key) ==
  LET cs == Chars[key]
  IN  /\ Len(cs) > 0
      /\ \A i \in 1..Len(cs) : \E k \in 1..Len(Digits) : Digits[k] = cs[i]
      /\ Len(cs) > 1 => cs[1] # "0"
      /\ decimalLessEq(cs, MaxArrayIndex)

\* The integer keys of a set, in ascending numeric order.
RECURSIVE ascending(_)
ascending(keys) ==
  IF keys = {} THEN <<>>
  ELSE LET least == CHOOSE k \in keys :
                      \A j \in keys : decimalLessEq(Chars[k], Chars[j])
       IN  <<least>> \o ascending(keys \ {least})

\* The other keys, in the order of their first declaration.
RECURSIVE insertionOrder(_, _)
insertionOrder(members, seen) ==
  IF members = <<>> THEN <<>>
  ELSE LET key == Head(members)[1]
       IN  IF key \in seen \/ isArrayIndex(key)
           THEN insertionOrder(Tail(members), seen)
           ELSE <<key>> \o insertionOrder(Tail(members), seen \cup {key})

\* The value JSON.parse gives a key: that of its last declaration.
lastValue(members, key) ==
  LET last == CHOOSE i \in 1..Len(members) :
                /\ members[i][1] = key
                /\ \A j \in (i + 1)..Len(members) : members[j][1] # key
  IN  members[last][2]

\* Object.entries of the object JSON.parse builds from the declared
\* members: integer keys first, ascending, then the other keys in insertion
\* order; a key declared twice keeps its first position and its last value.
ObjectEntries(members) ==
  LET keys == {members[i][1] : i \in 1..Len(members)}
      order == ascending({k \in keys : isArrayIndex(k)})
                 \o insertionOrder(members, {})
  IN  [i \in 1..Len(order) |-> <<order[i], lastValue(members, order[i])>>]

\* The message of the error thrown by readFileSync, JSON.parse or the
\* destructuring of the parsed value.
errorMessage(kind) ==
  CASE kind = "absent" -> "ENOENT: no such file or directory"
    [] kind = "malformed" -> "JSON Parse error"
    [] kind = "null" -> "null is not an object"

(***************************************************************************)
(* checkDependencies                                                       *)
(***************************************************************************)

\* Variant: the push without result.success = false.
pushError_KeepSuccess(res, message) ==
  [success |-> res.success, errors |-> Append(res.errors, message)]

\* result.success = false; result.errors.push(message)
pushError(res, message) ==
  [success |-> FALSE, errors |-> Append(res.errors, message)]

\* options.additional_internal_modules as isInternalModule receives it:
\* an options object without the property passes undefined, and the
\* parameter defaults to [].
additionalModulesOf(opts) ==
  IF "additional_internal_modules" \in DOMAIN opts
  THEN opts.additional_internal_modules
  ELSE <<>>

\* !options.ignore_packages?.includes(dep)
notIgnored(dep, opts) ==
  IF "ignore_packages" \notin DOMAIN opts THEN TRUE
  ELSE ~arrayIncludes(opts.ignore_packages, dep)

\* Variant: the dependencies rule without the ignore list.
internalLibDependencyViolation_NoIgnore(dep, opts) ==
  isInternalModule(dep, additionalModulesOf(opts))

internalLibDependencyViolation(dep, opts) ==
  /\ isInternalModule(dep, additionalModulesOf(opts))
  /\ notIgnored(dep, opts)

\* Variant: the peer rule without the comparison of the version with "*".
internalLibPeerViolation_AnyVersion(dep, version, opts) ==
  /\ isInternalModule(dep, additionalModulesOf(opts))
  /\ notIgnored(dep, opts)

internalLibPeerViolation(dep, version, opts) ==
  /\ isInternalModule(dep, additionalModulesOf(opts))
  /\ version # "*"
  /\ notIgnored(dep, opts)

bundledLibDependencyViolation(dep, opts) ==
  /\ isInternalModule(dep, additionalModulesOf(opts))
  /\ notIgnored(dep, opts)

\* Variant: the bundled peer rule without the ignore list.
bundledLibPeerViolation_NoIgnore(dep, opts) ==
  isInternalModule(dep, additionalModulesOf(opts))

bundledLibPeerViolation(dep, opts) ==
  /\ isInternalModule(dep, additionalModulesOf(opts))
  /\ notIgnored(dep, opts)

internalLibDependencyMessage(dep) ==
  <<"Internal module \"", dep,
    "\" found in dependencies. It should be in peerDependencies or devDependencies.">>

internalLibPeerMessage(dep) ==
  <<"Internal module \"", dep,
    "\" in peerDependencies should use \"*\" as version.">>

bundledLibDependencyMessage(dep) ==
  <<"Internal module \"", dep,
    "\" found in dependencies. Bundled libs cannot have internal dependencies.">>

bundledLibPeerMessage(dep) ==
  <<"Internal module \"", dep,
    "\" found in peerDependencies. Bundled libs cannot have internal peer dependencies.">>

readErrorMessage(kind) ==
  <<"Error reading or parsing package.json: ", errorMessage(kind)>>

\* The four for-loops over Object.entries, from entry i on.
RECURSIVE internalLibDependenciesLoop(_, _, _, _)
internalLibDependenciesLoop(entries, i, opts, res) ==
  IF i > Len(entries) THEN res
  ELSE internalLibDependenciesLoop(entries, i + 1, opts,
         IF internalLibDependencyViolation(entries[i][1], opts)
         THEN pushError(res, internalLibDependencyMessage(entries[i][1]))
         ELSE res)

RECURSIVE internalLibPeerLoop(_, _, _, _)
internalLibPeerLoop(entries, i, opts, res) ==
  IF i > Len(entries) THEN res
  ELSE internalLibPeerLoop(entries, i + 1, opts,
         IF internalLibPeerViolation(entries[i][1], entries[i][2], opts)
         THEN pushError(res, internalLibPeerMessage(entries[i][1]))
         ELSE res)

RECURSIVE bundledLibDependenciesLoop(_, _, _, _)
bundledLibDependenciesLoop(entries, i, opts, res) ==
  IF i > Len(entries) THEN res
  ELSE bundledLibDependenciesLoop(entries, i + 1, opts,
         IF bundledLibDependencyViolation(entries[i][1], opts)
         THEN pushError(res, bundledLibDependencyMessage(entries[i][1]))
         ELSE res)

RECURSIVE bundledLibPeerLoop(_, _, _, _)
bundledLibPeerLoop(entries, i, opts, res) ==
  IF i > Len(entries) THEN res
  ELSE bundledLibPeerLoop(entries, i + 1, opts,
         IF bundledLibPeerViolation(entries[i][1], opts)
         THEN pushError(res, bundledLibPeerMessage(entries[i][1]))
         ELSE res)

\* const { dependencies = {}, ... } = packageJson
sectionOrEmpty(f, section) ==
  IF section \in f.declared THEN f[section] ELSE <<>>

\* Variant: a catch block that records the message and leaves success.
catchReadError_KeepSuccess(res, kind) ==
  [success |-> res.success,
   errors |-> Append(res.errors, readErrorMessage(kind))]

\* The catch block.
catchReadError(res, kind) == pushError(res, readErrorMessage(kind))

\* Variant: the peer loop before the dependencies loop.
internalLibRules_PeerFirst(f, opts, res) ==
  LET afterPeers ==
        IF opts.peer_deps_should_be_asterisk
        THEN internalLibPeerLoop(
               ObjectEntries(sectionOrEmpty(f, "peerDependencies")), 1, opts, res)
        ELSE res
  IN  internalLibDependenciesLoop(
        ObjectEntries(sectionOrEmpty(f, "dependencies")), 1, opts, afterPeers)

\* The rules of package type internal_lib.
internalLibRules(f, opts, res) ==
  LET afterDependencies ==
        internalLibDependenciesLoop(
          ObjectEntries(sectionOrEmpty(f, "dependencies")), 1, opts, res)
  IN  IF opts.peer_deps_should_be_asterisk
      THEN internalLibPeerLoop(
             ObjectEntries(sectionOrEmpty(f, "peerDependencies")), 1, opts,
             afterDependencies)
      ELSE afterDependencies

\* Variant: the bundled peer loop under the asterisk option.
bundledLibRules_PeerIfAsterisk(f, opts, res) ==
  LET afterDependencies ==
        bundledLibDependenciesLoop(
          ObjectEntries(sectionOrEmpty(f, "dependencies")), 1, opts, res)
  IN  IF opts.peer_deps_should_be_asterisk
      THEN bundledLibPeerLoop(
             ObjectEntries(sectionOrEmpty(f, "peerDependencies")), 1, opts,
             afterDependencies)
      ELSE afterDependencies

\* The rules of package type bundled_lib.
bundledLibRules(f, opts, res) ==
  bundledLibPeerLoop(
    ObjectEntries(sectionOrEmpty(f, "peerDependencies")), 1, opts,
    bundledLibDependenciesLoop(
      ObjectEntries(sectionOrEmpty(f, "dependencies")), 1, opts, res))

checkDependencies(f, opts) ==
  LET initial == [success |-> TRUE, errors |-> <<>>]
  IN  IF f.kind # "object" THEN catchReadError(initial, f.kind)
      ELSE IF opts.package_type = "internal_lib"
           THEN internalLibRules(f, opts, initial)
      ELSE IF opts.package_type = "bundled_lib"
           THEN bundledLibRules(f, opts, initial)
      ELSE initial

(***************************************************************************)
(* main                                                                    *)
(***************************************************************************)

\* JavaScript's a || b on strings: b when a is undefined or empty.
orElse(a, b) == IF a = Undefined \/ a = "" THEN b ELSE a

Whitespace == {" "}

\* String.prototype.trim
RECURSIVE trim(_)
trim(cs) ==
  IF cs = <<>> THEN cs
  ELSE IF Head(cs) \in Whitespace THEN trim(Tail(cs))
  ELSE IF cs[Len(cs)] \in Whitespace THEN trim(SubSeq(cs, 1, Len(cs) - 1))
  ELSE cs

\* String.prototype.split(","): the pieces between the commas.
RECURSIVE split(_, _)
split(cs, piece) ==
  IF cs = <<>> THEN <<piece>>
  ELSE IF Head(cs) = "," THEN <<piece>> \o split(Tail(cs), <<>>)
  ELSE split(Tail(cs), Append(piece, Head(cs)))

\* str ? str.split(",").map((s) => s.trim()) : []
parseList(str) ==
  IF str = "" THEN <<>>
  ELSE LET pieces == split(Chars[str], <<>>)
       IN  [i \in 1..Len(pieces) |-> Str(trim(pieces[i]))]

\* The assembly of the options from the environment.
readPackageType(e) == orElse(e.INPUT_PACKAGE_TYPE, defaultOptions.package_type)

readPeerDepsAsterisk(e) ==
  \/ e.INPUT_PEER_DEPS_SHOULD_BE_ASTERISK = "true"
  \/ defaultOptions.peer_deps_should_be_asterisk

readOptions(e) ==
  [package_type |-> readPackageType(e),
   peer_deps_should_be_asterisk |-> readPeerDepsAsterisk(e),
   additional_internal_modules |->
     parseList(orElse(e.INPUT_ADDITIONAL_INTERNAL_MODULES, "")),
   ignore_packages |-> parseList(orElse(e.INPUT_IGNORE_PACKAGES, ""))]

\* process.cwd() throws when the working directory no longer exists.
cwdThrows(e, dir) == orElse(e.GITHUB_WORKSPACE, "") = "" /\ dir = Undefined

\* path.join(workspaceDir, "package.json"), as its two segments.
joinPackageJson(e, dir) == <<orElse(e.GITHUB_WORKSPACE, dir), "package.json">>

\* Lines 149-174: the options and the path, or a throw into the catch block.
MainReadInputs ==
  /\ pc = "main"
  /\ IF cwdThrows(env, cwd)
     THEN /\ pc' = "catch"
          /\ options' = readOptions(env)
          /\ UNCHANGED packageJsonPath
     ELSE /\ pc' = "announce"
          /\ options' = readOptions(env)
          /\ packageJsonPath' = joinPackageJson(env, cwd)
  /\ UNCHANGED <<env, cwd, file, pkg, result, internal, stdout, stderr, exitCode>>

\* Lines 176-179: console.log of the effective options.
MainAnnounce ==
  /\ pc = "announce"
  /\ stdout' = Append(stdout, <<"Checking dependencies with options:", options>>)
  /\ pc' = "check"
  /\ UNCHANGED <<env, cwd, file, pkg, options, packageJsonPath, result,
                 internal, stderr, exitCode>>

\* Line 181: const result = checkDependencies(packageJsonPath, options)
MainCheck ==
  /\ pc = "check"
  /\ result' = checkDependencies(file, options)
  /\ pc' = "report"
  /\ UNCHANGED <<env, cwd, file, pkg, options, packageJsonPath, internal,
                 stdout, stderr, exitCode>>

FailureHeader == "Dependency check failed:"
SuccessLine == "All dependency checks passed!"

\* Line 184: the failure header.
MainFailureHeader ==
  /\ pc = "report"
  /\ ~result.success
  /\ stderr' = Append(stderr, <<FailureHeader>>)
  /\ pc' = "forEach"
  /\ UNCHANGED <<env, cwd, file, pkg, options, packageJsonPath, result,
                 internal, stdout, exitCode>>

\* Line 186: one step of result.errors.forEach; the header is the one line
\* of stderr before the errors.
MainReportError ==
  /\ pc = "forEach"
  /\ Len(stderr) - 1 < Len(result.errors)
  /\ stderr' = Append(stderr, <<"  - ", result.errors[Len(stderr)]>>)
  /\ UNCHANGED <<env, cwd, file, pkg, pc, options, packageJsonPath, result,
                 internal, stdout, exitCode>>

\* Variant: an exit that does not wait for the end of the forEach.
MainExitFailure_Early ==
  /\ pc = "forEach"
  /\ exitCode' = 1
  /\ pc' = "exited"
  /\ UNCHANGED <<env, cwd, file, pkg, options, packageJsonPath, result,
                 internal, stdout, stderr>>

\* Line 187: process.exit(1)
MainExitFailure ==
  /\ pc = "forEach"
  /\ Len(stderr) - 1 = Len(result.errors)
  /\ exitCode' = 1
  /\ pc' = "exited"
  /\ UNCHANGED <<env, cwd, file, pkg, options, packageJsonPath, result,
                 internal, stdout, stderr>>

\* Line 189: the success line; main returns and the process ends with
\* status 0.
MainSuccess ==
  /\ pc = "report"
  /\ result.success
  /\ stdout' = Append(stdout, <<SuccessLine>>)
  /\ exitCode' = 0
  /\ pc' = "exited"
  /\ UNCHANGED <<env, cwd, file, pkg, options, packageJsonPath, result,
                 internal, stderr>>

\* Lines 191-194: the catch block of main.
MainCatch ==
  /\ pc = "catch"
  /\ stderr' = Append(stderr, <<"An error occurred:", "ENOENT: uv_cwd">>)
  /\ exitCode' = 1
  /\ pc' = "exited"
  /\ UNCHANGED <<env, cwd, file, pkg, options, packageJsonPath, result,
                 internal, stdout>>

(***************************************************************************)
(* Inputs                                                                  *)
(***************************************************************************)

\* Bounds: the number of members a manifest declares over its three
\* sections, for the calls of checkDependencies and for the runs of main.
MaxMembers == 2
MainMaxMembers == 1

ManifestNames == {"@tscircuit/core", "react", "10", "2"}
Versions == {"*", "^1.0.0"}
PackageNames ==
  {"@tscircuit/core", "MyCircuitLib", "schematic-symbols", "react",
   "my-internal-lib", "10", "2", ""}

RECURSIVE SeqsOfLen(_, _)
SeqsOfLen(S, n) ==
  IF n = 0 THEN {<<>>}
  ELSE {Append(s, x) : s \in SeqsOfLen(S, n - 1), x \in S}

\* The manifests that declare a, b and c members in the three sections; a
\* section with no member is not declared.
ManifestsOf(a, b, c) ==
  {[kind |-> "object",
    declared |-> {"dependencies" : x \in 1..a}
                   \cup {"peerDependencies" : x \in 1..b}
                   \cup {"devDependencies" : x \in 1..c},
    dependencies |-> d, peerDependencies |-> p, devDependencies |-> v] :
      d \in SeqsOfLen(ManifestNames \X Versions, a),
      p \in SeqsOfLen(ManifestNames \X Versions, b),
      v \in SeqsOfLen(ManifestNames \X Versions, c)}

Manifests(max) ==
  UNION {ManifestsOf(t[1], t[2], t[3]) :
           t \in {u \in (0..max) \X (0..max) \X (0..max) :
                    u[1] + u[2] + u[3] <= max}}

\* The manifest {"dependencies": {}, "peerDependencies": {},
\* "devDependencies": {}}.
EmptySections ==
  [kind |-> "object",
   declared |-> {"dependencies", "peerDependencies", "devDependencies"},
   dependencies |-> <<>>, peerDependencies |-> <<>>, devDependencies |-> <<>>]

Files(max) ==
  Manifests(max)
    \cup {[EmptySections EXCEPT !.kind = k, !.declared = {}] :
            k \in {"absent", "malformed", "null"}}
    \cup {EmptySections}

PackageTypes == {"internal_lib", "bundled_lib", "other"}
AdditionalLists == {<<>>, <<"10", "2">>}
IgnoreLists == {<<>>, <<"@tscircuit/core", "2">>}

\* The options objects; the two list properties are optional.
OptionsSet ==
  [package_type : PackageTypes, peer_deps_should_be_asterisk : BOOLEAN,
   additional_internal_modules : AdditionalLists, ignore_packages : IgnoreLists]
  \cup
  [package_type : PackageTypes, peer_deps_should_be_asterisk : BOOLEAN,
   additional_internal_modules : AdditionalLists]
  \cup
  [package_type : PackageTypes, peer_deps_should_be_asterisk : BOOLEAN,
   ignore_packages : IgnoreLists]

Environments ==
  [INPUT_PACKAGE_TYPE : {Undefined, "internal_lib", "bundled_lib", "other"},
   INPUT_PEER_DEPS_SHOULD_BE_ASTERISK : {Undefined, "", "true", "false", "TRUE"},
   INPUT_ADDITIONAL_INTERNAL_MODULES : {Undefined, " my-internal-lib , 2"},
   INPUT_IGNORE_PACKAGES : {Undefined, "react, @tscircuit/core"},
   GITHUB_WORKSPACE : {Undefined, "/github/workspace"}]

(***************************************************************************)
(* Spec: a run of main                                                     *)
(***************************************************************************)

Init ==
  /\ env \in Environments
  /\ cwd \in {"/home/runner", Undefined}
  /\ env.GITHUB_WORKSPACE # Undefined => cwd # Undefined
  /\ file \in Files(MainMaxMembers)
  /\ pkg = Undefined
  /\ pc = "main"
  /\ options = Unassigned
  /\ packageJsonPath = Unassigned
  /\ result = Unassigned
  /\ internal = Unassigned
  /\ stdout = <<>>
  /\ stderr = <<>>
  /\ exitCode = Unassigned

Next ==
  \/ MainReadInputs
  \/ MainAnnounce
  \/ MainCheck
  \/ MainFailureHeader
  \/ MainReportError
  \/ MainExitFailure
  \/ MainSuccess
  \/ MainCatch

Spec == Init /\ [][Next]_vars

(***************************************************************************)
(* SpecCheck: calls of checkDependencies                                   *)
(***************************************************************************)

InitCheck ==
  /\ env = Undefined
  /\ cwd = Undefined
  /\ file \in Files(MaxMembers)
  /\ pkg = Undefined
  /\ pc = "call"
  /\ options \in OptionsSet \cup {Unassigned}
  /\ packageJsonPath = <<"/home/runner", "package.json">>
  /\ result = Unassigned
  /\ internal = Unassigned
  /\ stdout = <<>>
  /\ stderr = <<>>
  /\ exitCode = Unassigned

\* checkDependencies(packageJsonPath, options), options defaulting to
\* defaultOptions.
CallCheckDependencies ==
  /\ pc = "call"
  /\ result' = checkDependencies(file,
                 IF options = Unassigned THEN defaultOptions ELSE options)
  /\ pc' = "returned"
  /\ UNCHANGED <<env, cwd, file, pkg, options, packageJsonPath, internal,
                 stdout, stderr, exitCode>>

NextCheck == CallCheckDependencies

SpecCheck == InitCheck /\ [][NextCheck]_vars

(***************************************************************************)
(* SpecClassify: calls of isInternalModule                                 *)
(***************************************************************************)

InitClassify ==
  /\ env = Undefined
  /\ cwd = Undefined
  /\ file \in Files(0)
  /\ pkg = Undefined
  /\ pc = "call"
  /\ options \in OptionsSet
  /\ packageJsonPath = Unassigned
  /\ result = Unassigned
  /\ internal = Unassigned
  /\ stdout = <<>>
  /\ stderr = <<>>
  /\ exitCode = Unassigned

\* isInternalModule(packageName, options.additional_internal_modules)
CallIsInternalModule ==
  /\ pc = "call"
  /\ \E packageName \in PackageNames :
       /\ pkg' = packageName
       /\ internal' =
            isInternalModule(packageName, additionalModulesOf(options))
  /\ pc' = "returned"
  /\ UNCHANGED <<env, cwd, file, options, packageJsonPath, result, stdout,
                 stderr, exitCode>>

NextClassify == CallIsInternalModule

SpecClassify == InitClassify /\ [][NextClassify]_vars

(***************************************************************************)
(* Properties                                                              *)
(***************************************************************************)

\* The options checkDependencies works with: a call without options takes
\* defaultOptions.
Effective == IF options = Unassigned THEN defaultOptions ELSE options

Returned == pc = "returned" /\ result # Unassigned
ParsedManifest == Returned /\ file.kind = "object"

\* The keys a section of the manifest declares.
KeysOf(section) ==
  IF section \in file.declared
  THEN {file[section][i][1] : i \in 1..Len(file[section])}
  ELSE {}

IgnoredNames ==
  IF "ignore_packages" \in DOMAIN Effective
  THEN {Effective.ignore_packages[i] : i \in 1..Len(Effective.ignore_packages)}
  ELSE {}

Internal(name) == isInternalModule(name, additionalModulesOf(Effective))

\* How many times a message occurs in the returned errors.
Count(message) ==
  Cardinality({i \in 1..Len(result.errors) : result.errors[i] = message})

\* The position of the first declaration of a key in a section.
FirstDeclared(section, key) ==
  CHOOSE i \in 1..Len(file[section]) :
    /\ file[section][i][1] = key
    /\ \A j \in 1..(i - 1) : file[section][j][1] # key

AllNames == ManifestNames \cup PackageNames

\* C1: under internal_lib the "found in dependencies. It should be in
\* peerDependencies or devDependencies." error is emitted for a name exactly
\* when the name is a key of dependencies, is internal and is not ignored,
\* and then exactly once; never for names only in the other sections.
C1_InternalLibDependencies ==
  (ParsedManifest /\ Effective.package_type = "internal_lib") =>
    \A name \in AllNames :
      Count(internalLibDependencyMessage(name)) =
        IF /\ name \in KeysOf("dependencies")
           /\ Internal(name)
           /\ name \notin IgnoredNames
        THEN 1 ELSE 0

C1_Witness ==
  /\ ParsedManifest
  /\ Effective.package_type = "internal_lib"
  /\ KeysOf("dependencies") = {"@tscircuit/core"}
  /\ "10" \in KeysOf("peerDependencies") \cup KeysOf("devDependencies")
  /\ Internal("10")
  /\ Count(internalLibDependencyMessage("@tscircuit/core")) = 1
  /\ Count(internalLibDependencyMessage("10")) = 0

C3_BundledLib ==
  (ParsedManifest /\ Effective.package_type = "bundled_lib") =>
    /\ result.success <=>
         \A name \in KeysOf("dependencies") \cup KeysOf("peerDependencies") :
           ~Internal(name) \/ name \in IgnoredNames
    /\ \A name \in AllNames :
         /\ Count(bundledLibDependencyMessage(name)) =
              IF /\ name \in KeysOf("dependencies")
                 /\ Internal(name)
                 /\ name \notin IgnoredNames
              THEN 1 ELSE 0
         /\ Count(bundledLibPeerMessage(name)) =
              IF /\ name \in KeysOf("peerDependencies")
                 /\ Internal(name)
                 /\ name \notin IgnoredNames
              THEN 1 ELSE 0
    /\ Len(result.errors) =
         Cardinality({name \in KeysOf("dependencies") :
                        Internal(name) /\ name \notin IgnoredNames})
         + Cardinality({name \in KeysOf("peerDependencies") :
                          Internal(name) /\ name \notin IgnoredNames})

C3_Witness ==
  /\ ParsedManifest
  /\ Effective.package_type = "bundled_lib"
  /\ ~Effective.peer_deps_should_be_asterisk
  /\ file.dependencies = <<<<"@tscircuit/core", "^1.0.0">>>>
  /\ file.peerDependencies = <<<<"@tscircuit/core", "*">>>>
  /\ result.errors = <<bundledLibDependencyMessage("@tscircuit/core"),
                       bundledLibPeerMessage("@tscircuit/core")>>

\* The four messages a rule can emit for a name.
ViolationsFor(name) ==
  {internalLibDependencyMessage(name), internalLibPeerMessage(name),
   bundledLibDependencyMessage(name), bundledLibPeerMessage(name)}

\* C4: a name in ignore_packages gets no violation, in dependencies, in
\* peerDependencies or in both, for every package type and asterisk
\* setting; a manifest whose internal names are all ignored succeeds.
C4_IgnoreListExemption ==
  ParsedManifest =>
    /\ \A name \in IgnoredNames :
         \A i \in 1..Len(result.errors) :
           result.errors[i] \notin ViolationsFor(name)
    /\ (\A name \in KeysOf("dependencies") \cup KeysOf("peerDependencies") :
          Internal(name) => name \in IgnoredNames)
         => result.success

C4_Witness ==
  /\ ParsedManifest
  /\ Effective.package_type \in {"internal_lib", "bundled_lib"}
  /\ Effective.peer_deps_should_be_asterisk
  /\ "@tscircuit/core" \in IgnoredNames
  /\ "@tscircuit/core" \in KeysOf("dependencies")
  /\ "@tscircuit/core" \in KeysOf("peerDependencies")
  /\ file.peerDependencies[1][2] # "*"
  /\ result.success

\* C5: the returned Result has success = (errors is empty), on every path:
\* the rules, the read or parse failure, an unrecognised package type.
C5_SuccessIffNoErrors ==
  Returned => (result.success <=> result.errors = <<>>)

C5_Witness ==
  /\ Returned
  /\ file.kind = "object"
  /\ ~result.success
  /\ Len(result.errors) = 2

\* C6: when the manifest cannot be read or parsed, the Result is a failure
\* whose errors are exactly the one "Error reading or parsing package.json"
\* message, for every package type and configuration.
C6_ReadFailure ==
  (Returned /\ file.kind # "object") =>
    /\ result.success = FALSE
    /\ result.errors = <<readErrorMessage(file.kind)>>

C6_Witness ==
  /\ Returned
  /\ file.kind = "malformed"
  /\ Effective.package_type = "bundled_lib"
  /\ Len(result.errors) = 1

\* The lines main prints for the errors of a failed check.
ErrorLines == [i \in 1..Len(result.errors) |-> <<"  - ", result.errors[i]>>]

Printed(out, line) == \E i \in 1..Len(out) : out[i] = line

C8_AsteriskOptionFromEnv ==
  options # Unassigned =>
    (options.peer_deps_should_be_asterisk <=>
       env.INPUT_PEER_DEPS_SHOULD_BE_ASTERISK = "true")

\* C9 as stated: isInternalModule(n) is true exactly when n lowercased
\* contains "circuit".
C9_InternalIffContainsCircuit ==
  (pc = "returned" /\ pkg # Undefined) =>
    (internal <=> includes(toLowerCase(Chars[pkg]), Chars["circuit"]))

\* C9 amended: isInternalModule(n, extra) is true exactly when n lowercased
\* contains "circuit", or n is in INTERNAL_PACKAGE_LIST, or n is in extra.
C9_InternalIffCircuitOrListed ==
  (pc = "returned" /\ pkg # Undefined) =>
    (internal <=>
       \/ includes(toLowerCase(Chars[pkg]), Chars["circuit"])
       \/ pkg \in {INTERNAL_PACKAGE_LIST[i] : i \in 1..Len(INTERNAL_PACKAGE_LIST)}
       \/ /\ "additional_internal_modules" \in DOMAIN options
          /\ pkg \in {options.additional_internal_modules[i] :
                        i \in 1..Len(options.additional_internal_modules)})

C9_Witness ==
  /\ pc = "returned"
  /\ pkg = "MyCircuitLib"
  /\ "additional_internal_modules" \notin DOMAIN options
  /\ internal = TRUE

\* The section and the name an error message is about.
FromDependencies(message) ==
  \E name \in AllNames :
    message \in {internalLibDependencyMessage(name),
                 bundledLibDependencyMessage(name)}
FromPeerDependencies(message) ==
  \E name \in AllNames :
    message \in {internalLibPeerMessage(name), bundledLibPeerMessage(name)}
SectionOf(message) ==
  IF FromDependencies(message) THEN "dependencies" ELSE "peerDependencies"
NameOf(message) == message[2]

\* The violations of dependencies come before those of peerDependencies.
DependenciesFirst ==
  \A i, j \in 1..Len(result.errors) :
    (i < j /\ FromDependencies(result.errors[j]))
      => FromDependencies(result.errors[i])

====
